---- MODULE Spec2Model ----
(***************************************************************************)
(* Model of the opomodoro controller (src/src/lib.rs): the TimerState sum  *)
(* type, the App main loop (run), the input mapper (handle_input), action  *)
(* application (apply_action) and the completion / transition policy       *)
(* (update), together with the Ctrl-C handler installed by main.           *)
(*                                                                         *)
(* Instants and Durations are natural numbers of one abstract time unit.   *)
(* One loop iteration is split at the points where the loop thread calls   *)
(* into another function, so that the asynchronous signal handler can      *)
(* interleave between them.                                                *)
(***************************************************************************)
EXTENDS Integers, Sequences, FiniteSets, TLC

\* ------------------------------------------------------------------ bounds
MaxCycles == 2      \* largest configured number of cycles
MaxDur    == 2      \* largest configured work / break duration
MaxStep   == 2      \* largest advance of the clock between two ticks
MaxTime   == 7      \* the clock is not advanced beyond this instant

VARIABLES
    current_cycle,  \* App.current_cycle
    num_cycles,     \* App.num_cycles
    work_time,      \* App.work_time
    break_time,     \* App.break_time
    phase,          \* App.phase : [kind, duration]
    timer_state,    \* App.timer_state : Running{end} | Paused{remaining}
    end_state,      \* App.end_state
    running,        \* the shared AtomicBool
    remaining,      \* App.remaining (cached once per tick)
    late,           \* App.late
    now,            \* the local `now` of App::run (last Instant::now())
    action,         \* the local `action` of App::run
    pc,             \* position of the loop thread
    result,         \* return value of App::run: "none" while running
    entered,        \* history: phases entered so far, in order
    quitAct,        \* history: a Quit action was applied by apply_action
    inputFailed,    \* history: handle_input observed a poll / read error
    sigCleared,     \* history: the signal handler stored false
    ts0,            \* history: timer_state at the last remaining() query
    bells,          \* number of bells written to the terminal so far
    delays,         \* number of 300 ms sleeps taken so far
    completions,    \* history: phase endings matched as Completed
    skips,          \* history: phase endings matched as Skipped
    phaseCompl,     \* history: Completed endings of the current phase
    newPhase,       \* history: the last update installed a new phase
    pausedSkip,     \* history: the last update matched Skipped while Paused
    iter,           \* history: steps taken by the current loop iteration
    exitBy,         \* history: how run left the loop
    sigAt,          \* history: where the loop thread was at the first store
    cli             \* the parsed command line of main

vars == << current_cycle, num_cycles, work_time, break_time, phase,
           timer_state, end_state, running, remaining, late, now, action,
           pc, result, entered, quitAct, inputFailed, sigCleared, ts0,
           bells, delays, completions, skips, phaseCompl, newPhase,
           pausedSkip, iter, exitBy, sigAt, cli >>

\* ------------------------------------------------------------ data types
EndStates == {"None", "Completed", "Skipped", "Erred", "Quit"}

Actions == {"Toggle", "Skip", "Quit", "None"}

Running(e) == [tag |-> "Running", end |-> e]

Paused(r) == [tag |-> "Paused", remaining |-> r]

Phase(k, d) == [kind |-> k, duration |-> d]

\* Instant::saturating_duration_since: zero when `earlier` is later than self.
SaturatingDurationSince(end, earlier) ==
    IF end >= earlier THEN end - earlier ELSE 0

\* toggle_pause resuming at `now` without adding the frozen remaining.
TogglePause_DropRemaining(ts, t) ==
    IF ts.tag = "Running"
    THEN Paused(SaturatingDurationSince(ts.end, t))
    ELSE Running(t)

\* toggle_pause capturing `end` itself instead of the time left until it.
TogglePause_CaptureEnd(ts, t) ==
    IF ts.tag = "Running"
    THEN Paused(ts.end)
    ELSE Running(t + ts.remaining)

\* TimerState::toggle_pause
TogglePause(ts, t) ==
    IF ts.tag = "Running"
    THEN Paused(SaturatingDurationSince(ts.end, t))
    ELSE Running(t + ts.remaining)

\* remaining computed with a plain, non-saturating subtraction.
Remaining_Underflow(ts, t) ==
    IF ts.tag = "Running"
    THEN ts.end - t
    ELSE ts.remaining

\* TimerState::remaining
Remaining(ts, t) ==
    IF ts.tag = "Running"
    THEN SaturatingDurationSince(ts.end, t)
    ELSE ts.remaining

\* -------------------------------------------------------------- App::new
Configs ==
    [ work_time : 1..MaxDur, break_time : 1..MaxDur,
      cycles : 1..MaxCycles, late : BOOLEAN ]

\* The App value built by App::new when Instant::now() returns t.
NewApp(config, t) ==
    [ current_cycle |-> 1,
      num_cycles    |-> config.cycles,
      work_time     |-> config.work_time,
      break_time    |-> config.break_time,
      phase         |-> Phase("Work", config.work_time),
      timer_state   |-> Running(t + config.work_time),
      end_state     |-> "None",
      late          |-> config.late,
      remaining     |-> config.work_time ]

\* The state right after construction; the clock starts at instant 0.
New(config) ==
    /\ now = 0
    /\ current_cycle = NewApp(config, 0).current_cycle
    /\ num_cycles = NewApp(config, 0).num_cycles
    /\ work_time = NewApp(config, 0).work_time
    /\ break_time = NewApp(config, 0).break_time
    /\ phase = NewApp(config, 0).phase
    /\ timer_state = NewApp(config, 0).timer_state
    /\ end_state = NewApp(config, 0).end_state
    /\ late = NewApp(config, 0).late
    /\ remaining = NewApp(config, 0).remaining

Init ==
    /\ \E config \in Configs : New(config)
    /\ running = TRUE
    /\ action = "None"
    /\ pc = "loop"
    /\ result = "none"
    /\ entered = << [kind |-> "Work", cycle |-> 1] >>
    /\ quitAct = FALSE
    /\ inputFailed = FALSE
    /\ sigCleared = FALSE
    /\ ts0 = Running(0)
    /\ bells = 0
    /\ delays = 0
    /\ completions = 0
    /\ skips = 0
    /\ phaseCompl = 0
    /\ newPhase = FALSE
    /\ pausedSkip = FALSE
    /\ iter = << >>
    /\ exitBy = "none"
    /\ sigAt = "none"
    /\ cli = "none"

config_vars == << num_cycles, work_time, break_time, late >>

hist_vars == << entered, quitAct, inputFailed, sigCleared, ts0 >>

aux_vars ==
    << bells, delays, completions, skips, phaseCompl, newPhase, pausedSkip,
       sigAt, cli >>

\* -------------------------------------------------------------- App::run
\* `while self.end_state != EndState::Quit` found false: run returns Ok(()).
LoopExit ==
    /\ pc = "loop"
    /\ end_state = "Quit"
    /\ pc' = "done"
    /\ result' = "Ok"
    /\ iter' = << "while" >>
    /\ exitBy' = "while"
    /\ UNCHANGED << current_cycle, config_vars, phase, timer_state,
                    end_state, running, remaining, now, action, hist_vars,
                    aux_vars >>

\* The flag check placed after `now` and `remaining` were refreshed.
FlagExit_AfterRefresh ==
    /\ pc = "loop"
    /\ end_state # "Quit"
    /\ ~running
    /\ \E t \in now..(now + MaxStep) :
          /\ t <= MaxTime
          /\ now' = t
          /\ remaining' = Remaining(timer_state, t)
    /\ end_state' = "Quit"
    /\ pc' = "done"
    /\ result' = "Ok"
    /\ iter' = << "while", "flag" >>
    /\ exitBy' = "flag"
    /\ UNCHANGED << current_cycle, config_vars, phase, timer_state,
                    running, action, hist_vars, aux_vars >>

\* The running flag is found false: end_state = Quit; break.
FlagExit ==
    /\ pc = "loop"
    /\ end_state # "Quit"
    /\ ~running
    /\ end_state' = "Quit"
    /\ pc' = "done"
    /\ result' = "Ok"
    /\ iter' = << "while", "flag" >>
    /\ exitBy' = "flag"
    /\ UNCHANGED << current_cycle, config_vars, phase, timer_state,
                    running, remaining, now, action, hist_vars, aux_vars >>

\* The loop body entered without looking at the running flag.
TickStart_NoFlagCheck ==
    /\ pc = "loop"
    /\ end_state # "Quit"
    /\ \E t \in now..(now + MaxStep) :
          /\ t <= MaxTime
          /\ now' = t
          /\ remaining' = Remaining(timer_state, t)
    /\ pc' = "input"
    /\ iter' = << "while", "flag", "refresh" >>
    /\ UNCHANGED << current_cycle, config_vars, phase, timer_state,
                    end_state, running, action, result, hist_vars,
                    exitBy, aux_vars >>

\* The flag is found true: now = Instant::now(); remaining is refreshed.
TickStart ==
    /\ pc = "loop"
    /\ end_state # "Quit"
    /\ running
    /\ \E t \in now..(now + MaxStep) :
          /\ t <= MaxTime
          /\ now' = t
          /\ remaining' = Remaining(timer_state, t)
    /\ pc' = "input"
    /\ iter' = << "while", "flag", "refresh" >>
    /\ UNCHANGED << current_cycle, config_vars, phase, timer_state,
                    end_state, running, action, result, hist_vars,
                    exitBy, aux_vars >>

\* ------------------------------------------------------ App::handle_input
\* What poll / read deliver in one call.
InputOutcomes ==
    { "poll_err", "read_err", "timeout", "non_key",
      "key_p", "key_s", "key_q", "key_ctrl_c", "key_c", "key_other" }

\* The key-press mapping of handle_input.
KeyAction(o) ==
    CASE o = "key_p"      -> "Toggle"
      [] o = "key_s"      -> "Skip"
      [] o = "key_q"      -> "Quit"
      [] o = "key_ctrl_c" -> "Quit"
      [] OTHER            -> "None"

\* handle_input reporting a poll / read error as "no input" (a retry).
HandleInput_Retry ==
    /\ pc = "input"
    /\ \E o \in InputOutcomes :
          IF o \in {"poll_err", "read_err"}
          THEN /\ end_state' = "Erred"
               /\ action' = "None"
               /\ inputFailed' = TRUE
          ELSE /\ action' = KeyAction(o)
               /\ UNCHANGED << end_state, inputFailed >>
    /\ pc' = "apply"
    /\ iter' = Append(iter, "poll")
    /\ UNCHANGED << current_cycle, config_vars, phase, timer_state, running,
                    remaining, now, result, entered, quitAct, sigCleared,
                    ts0, exitBy, aux_vars >>

HandleInput ==
    /\ pc = "input"
    /\ \E o \in InputOutcomes :
          IF o \in {"poll_err", "read_err"}
          THEN /\ end_state' = "Erred"
               /\ action' = "Quit"
               /\ inputFailed' = TRUE
          ELSE /\ action' = KeyAction(o)
               /\ UNCHANGED << end_state, inputFailed >>
    /\ pc' = "apply"
    /\ iter' = Append(iter, "poll")
    /\ UNCHANGED << current_cycle, config_vars, phase, timer_state, running,
                    remaining, now, result, entered, quitAct, sigCleared,
                    ts0, exitBy, aux_vars >>

\* ------------------------------------------------------ App::apply_action
\* apply_action whose Quit arm does not store false in the running flag.
ApplyAction_NoStore ==
    /\ pc = "apply"
    /\ CASE action = "Toggle" ->
              /\ timer_state' = TogglePause(timer_state, now)
              /\ UNCHANGED << end_state, running, quitAct >>
         [] action = "Skip" ->
              /\ end_state' = "Skipped"
              /\ UNCHANGED << timer_state, running, quitAct >>
         [] action = "Quit" ->
              /\ end_state' = "Quit"
              /\ quitAct' = TRUE
              /\ UNCHANGED << timer_state, running >>
         [] OTHER ->
              UNCHANGED << timer_state, end_state, running, quitAct >>
    /\ pc' = "update"
    /\ iter' = Append(iter, "apply")
    /\ UNCHANGED << current_cycle, config_vars, phase, remaining, now,
                    action, result, entered, inputFailed, sigCleared, ts0,
                    exitBy, aux_vars >>

\* apply_action whose Quit arm keeps an Erred set by handle_input.
ApplyAction_KeepErred ==
    /\ pc = "apply"
    /\ CASE action = "Toggle" ->
              /\ timer_state' = TogglePause(timer_state, now)
              /\ UNCHANGED << end_state, running, quitAct >>
         [] action = "Skip" ->
              /\ end_state' = "Skipped"
              /\ UNCHANGED << timer_state, running, quitAct >>
         [] action = "Quit" ->
              /\ running' = FALSE
              /\ end_state' = IF end_state = "Erred" THEN "Erred" ELSE "Quit"
              /\ quitAct' = TRUE
              /\ UNCHANGED timer_state
         [] OTHER ->
              UNCHANGED << timer_state, end_state, running, quitAct >>
    /\ pc' = "update"
    /\ iter' = Append(iter, "apply")
    /\ UNCHANGED << current_cycle, config_vars, phase, remaining, now,
                    action, result, entered, inputFailed, sigCleared, ts0,
                    exitBy, aux_vars >>

ApplyAction ==
    /\ pc = "apply"
    /\ CASE action = "Toggle" ->
              /\ timer_state' = TogglePause(timer_state, now)
              /\ UNCHANGED << end_state, running, quitAct >>
         [] action = "Skip" ->
              /\ end_state' = "Skipped"
              /\ UNCHANGED << timer_state, running, quitAct >>
         [] action = "Quit" ->
              /\ running' = FALSE
              /\ end_state' = "Quit"
              /\ quitAct' = TRUE
              /\ UNCHANGED timer_state
         [] OTHER ->
              UNCHANGED << timer_state, end_state, running, quitAct >>
    /\ pc' = "update"
    /\ iter' = Append(iter, "apply")
    /\ UNCHANGED << current_cycle, config_vars, phase, remaining, now,
                    action, result, entered, inputFailed, sigCleared, ts0,
                    exitBy, aux_vars >>

\* ------------------------------------------------------------ App::update
\* The Completed arm with the negation of `late` forgotten.
CompletedPolicy_LateFlipped ==
    /\ delays' = delays + 1
    /\ bells' = bells + 1
    /\ IF phase.kind = "Work"
       THEN IF current_cycle = num_cycles /\ late
            THEN /\ end_state' = "Quit"
                 /\ UNCHANGED << phase, timer_state, current_cycle >>
            ELSE /\ end_state' = "None"
                 /\ phase' = Phase("Break", break_time)
                 /\ timer_state' = Running(now + break_time)
                 /\ UNCHANGED current_cycle
       ELSE IF current_cycle = num_cycles
            THEN /\ end_state' = "Quit"
                 /\ UNCHANGED << phase, timer_state, current_cycle >>
            ELSE /\ end_state' = "None"
                 /\ phase' = Phase("Work", work_time)
                 /\ timer_state' = Running(now + work_time)
                 /\ current_cycle' = current_cycle + 1

\* The Completed arm ending the run after the last Work phase whatever `late`.
CompletedPolicy_IgnoreLate ==
    /\ delays' = delays + 1
    /\ bells' = bells + 1
    /\ IF phase.kind = "Work"
       THEN IF current_cycle = num_cycles
            THEN /\ end_state' = "Quit"
                 /\ UNCHANGED << phase, timer_state, current_cycle >>
            ELSE /\ end_state' = "None"
                 /\ phase' = Phase("Break", break_time)
                 /\ timer_state' = Running(now + break_time)
                 /\ UNCHANGED current_cycle
       ELSE IF current_cycle = num_cycles
            THEN /\ end_state' = "Quit"
                 /\ UNCHANGED << phase, timer_state, current_cycle >>
            ELSE /\ end_state' = "None"
                 /\ phase' = Phase("Work", work_time)
                 /\ timer_state' = Running(now + work_time)
                 /\ current_cycle' = current_cycle + 1

\* The Completed arm counting a cycle on the Work-to-Break transition.
CompletedPolicy_CountsCycle ==
    /\ delays' = delays + 1
    /\ bells' = bells + 1
    /\ IF phase.kind = "Work"
       THEN IF current_cycle = num_cycles /\ ~late
            THEN /\ end_state' = "Quit"
                 /\ UNCHANGED << phase, timer_state, current_cycle >>
            ELSE /\ end_state' = "None"
                 /\ phase' = Phase("Break", break_time)
                 /\ timer_state' = Running(now + break_time)
                 /\ current_cycle' = current_cycle + 1
       ELSE IF current_cycle = num_cycles
            THEN /\ end_state' = "Quit"
                 /\ UNCHANGED << phase, timer_state, current_cycle >>
            ELSE /\ end_state' = "None"
                 /\ phase' = Phase("Work", work_time)
                 /\ timer_state' = Running(now + work_time)
                 /\ current_cycle' = current_cycle + 1

\* The Completed arm of a Work phase resetting end_state without
\* installing the Break phase and its timer.
CompletedPolicy_KeepsPhase ==
    /\ delays' = delays + 1
    /\ bells' = bells + 1
    /\ IF phase.kind = "Work"
       THEN IF current_cycle = num_cycles /\ ~late
            THEN /\ end_state' = "Quit"
                 /\ UNCHANGED << phase, timer_state, current_cycle >>
            ELSE /\ end_state' = "None"
                 /\ UNCHANGED << phase, timer_state, current_cycle >>
       ELSE IF current_cycle = num_cycles
            THEN /\ end_state' = "Quit"
                 /\ UNCHANGED << phase, timer_state, current_cycle >>
            ELSE /\ end_state' = "None"
                 /\ phase' = Phase("Work", work_time)
                 /\ timer_state' = Running(now + work_time)
                 /\ current_cycle' = current_cycle + 1

\* The EndState::Completed arm.
CompletedPolicy ==
    /\ delays' = delays + 1
    /\ bells' = bells + 1
    /\ IF phase.kind = "Work"
       THEN IF current_cycle = num_cycles /\ ~late
            THEN /\ end_state' = "Quit"
                 /\ UNCHANGED << phase, timer_state, current_cycle >>
            ELSE /\ end_state' = "None"
                 /\ phase' = Phase("Break", break_time)
                 /\ timer_state' = Running(now + break_time)
                 /\ UNCHANGED current_cycle
       ELSE IF current_cycle = num_cycles
            THEN /\ end_state' = "Quit"
                 /\ UNCHANGED << phase, timer_state, current_cycle >>
            ELSE /\ end_state' = "None"
                 /\ phase' = Phase("Work", work_time)
                 /\ timer_state' = Running(now + work_time)
                 /\ current_cycle' = current_cycle + 1

\* The Skipped arm counting a cycle on the Work-to-Break transition.
SkippedPolicy_CountsCycle ==
    /\ delays' = delays + 1
    /\ UNCHANGED bells
    /\ IF phase.kind = "Work"
       THEN IF current_cycle = num_cycles /\ ~late
            THEN /\ end_state' = "Quit"
                 /\ UNCHANGED << phase, timer_state, current_cycle >>
            ELSE /\ end_state' = "None"
                 /\ phase' = Phase("Break", break_time)
                 /\ timer_state' = Running(now + break_time)
                 /\ current_cycle' = current_cycle + 1
       ELSE IF current_cycle = num_cycles
            THEN /\ end_state' = "Quit"
                 /\ UNCHANGED << phase, timer_state, current_cycle >>
            ELSE /\ end_state' = "None"
                 /\ phase' = Phase("Work", work_time)
                 /\ timer_state' = Running(now + work_time)
                 /\ current_cycle' = current_cycle + 1

\* The Skipped arm ringing the bell as the Completed arm does.
SkippedPolicy_Bell ==
    /\ delays' = delays + 1
    /\ bells' = bells + 1
    /\ IF phase.kind = "Work"
       THEN IF current_cycle = num_cycles /\ ~late
            THEN /\ end_state' = "Quit"
                 /\ UNCHANGED << phase, timer_state, current_cycle >>
            ELSE /\ end_state' = "None"
                 /\ phase' = Phase("Break", break_time)
                 /\ timer_state' = Running(now + break_time)
                 /\ UNCHANGED current_cycle
       ELSE IF current_cycle = num_cycles
            THEN /\ end_state' = "Quit"
                 /\ UNCHANGED << phase, timer_state, current_cycle >>
            ELSE /\ end_state' = "None"
                 /\ phase' = Phase("Work", work_time)
                 /\ timer_state' = Running(now + work_time)
                 /\ current_cycle' = current_cycle + 1

\* The Skipped arm carrying a pause over into the phase it installs.
SkippedPolicy_KeepsPause ==
    /\ delays' = delays + 1
    /\ UNCHANGED bells
    /\ IF phase.kind = "Work"
       THEN IF current_cycle = num_cycles /\ ~late
            THEN /\ end_state' = "Quit"
                 /\ UNCHANGED << phase, timer_state, current_cycle >>
            ELSE /\ end_state' = "None"
                 /\ phase' = Phase("Break", break_time)
                 /\ timer_state' = IF timer_state.tag = "Paused"
                                   THEN Paused(break_time)
                                   ELSE Running(now + break_time)
                 /\ UNCHANGED current_cycle
       ELSE IF current_cycle = num_cycles
            THEN /\ end_state' = "Quit"
                 /\ UNCHANGED << phase, timer_state, current_cycle >>
            ELSE /\ end_state' = "None"
                 /\ phase' = Phase("Work", work_time)
                 /\ timer_state' = IF timer_state.tag = "Paused"
                                   THEN Paused(work_time)
                                   ELSE Running(now + work_time)
                 /\ current_cycle' = current_cycle + 1

\* The EndState::Skipped arm.
SkippedPolicy ==
    /\ delays' = delays + 1
    /\ UNCHANGED bells
    /\ IF phase.kind = "Work"
       THEN IF current_cycle = num_cycles /\ ~late
            THEN /\ end_state' = "Quit"
                 /\ UNCHANGED << phase, timer_state, current_cycle >>
            ELSE /\ end_state' = "None"
                 /\ phase' = Phase("Break", break_time)
                 /\ timer_state' = Running(now + break_time)
                 /\ UNCHANGED current_cycle
       ELSE IF current_cycle = num_cycles
            THEN /\ end_state' = "Quit"
                 /\ UNCHANGED << phase, timer_state, current_cycle >>
            ELSE /\ end_state' = "None"
                 /\ phase' = Phase("Work", work_time)
                 /\ timer_state' = Running(now + work_time)
                 /\ current_cycle' = current_cycle + 1

\* The completion check without the test for a Running timer.
CompletionCheck_IgnoresPause ==
    IF remaining = 0
    THEN "Completed"
    ELSE end_state

\* The completion check at the head of update.
CompletionCheck ==
    IF timer_state.tag = "Running" /\ remaining = 0
    THEN "Completed"
    ELSE end_state

\* update followed by a `break` on Quit, before the frame is drawn.
Update_BreakOnQuit ==
    /\ pc = "update"
    /\ CASE CompletionCheck = "Completed" -> CompletedPolicy
         [] CompletionCheck = "Skipped"   -> SkippedPolicy
         [] OTHER -> /\ end_state' = CompletionCheck
                     /\ UNCHANGED << phase, timer_state, current_cycle,
                                     bells, delays >>
    /\ entered' = IF phase' # phase
                  THEN Append(entered,
                              [kind |-> phase'.kind, cycle |-> current_cycle'])
                  ELSE entered
    /\ completions' = completions + IF CompletionCheck = "Completed" THEN 1 ELSE 0
    /\ skips' = skips + IF CompletionCheck = "Skipped" THEN 1 ELSE 0
    /\ newPhase' = (phase' # phase)
    /\ pausedSkip' = (CompletionCheck = "Skipped" /\ timer_state.tag = "Paused")
    /\ phaseCompl' = IF phase' # phase THEN 0
                     ELSE IF CompletionCheck = "Completed" THEN phaseCompl + 1
                     ELSE phaseCompl
    /\ pc' = IF end_state' = "Quit" THEN "loop" ELSE "draw"
    /\ iter' = Append(iter, "update")
    /\ UNCHANGED << config_vars, running, remaining, now, action, result,
                    quitAct, inputFailed, sigCleared, ts0, exitBy, sigAt,
                    cli >>

Update ==
    /\ pc = "update"
    /\ CASE CompletionCheck = "Completed" -> CompletedPolicy
         [] CompletionCheck = "Skipped"   -> SkippedPolicy
         [] OTHER -> /\ end_state' = CompletionCheck
                     /\ UNCHANGED << phase, timer_state, current_cycle,
                                     bells, delays >>
    /\ entered' = IF phase' # phase
                  THEN Append(entered,
                              [kind |-> phase'.kind, cycle |-> current_cycle'])
                  ELSE entered
    /\ completions' = completions + IF CompletionCheck = "Completed" THEN 1 ELSE 0
    /\ skips' = skips + IF CompletionCheck = "Skipped" THEN 1 ELSE 0
    /\ newPhase' = (phase' # phase)
    /\ pausedSkip' = (CompletionCheck = "Skipped" /\ timer_state.tag = "Paused")
    /\ phaseCompl' = IF phase' # phase THEN 0
                     ELSE IF CompletionCheck = "Completed" THEN phaseCompl + 1
                     ELSE phaseCompl
    /\ pc' = "draw"
    /\ iter' = Append(iter, "update")
    /\ UNCHANGED << config_vars, running, remaining, now, action, result,
                    quitAct, inputFailed, sigCleared, ts0, exitBy, sigAt,
                    cli >>

\* -------------------------------------------------- terminal.draw(...)?
DrawOk ==
    /\ pc = "draw"
    /\ pc' = "loop"
    /\ iter' = Append(iter, "draw")
    /\ UNCHANGED << current_cycle, config_vars, phase, timer_state,
                    end_state, running, remaining, now, action, result,
                    hist_vars, exitBy, aux_vars >>

\* The `?` after draw: an io error makes run return it.
DrawErr ==
    /\ pc = "draw"
    /\ pc' = "done"
    /\ result' = "Err"
    /\ iter' = Append(iter, "draw")
    /\ exitBy' = "draw"
    /\ UNCHANGED << current_cycle, config_vars, phase, timer_state,
                    end_state, running, remaining, now, action, hist_vars,
                    aux_vars >>

\* --------------------------------------------- ctrlc handler set by main
SignalHandler ==
    /\ pc \in {"loop", "input", "apply", "update", "draw"}
    /\ running' = FALSE
    /\ sigCleared' = TRUE
    /\ sigAt' = IF sigAt = "none" THEN pc ELSE sigAt
    /\ UNCHANGED << current_cycle, config_vars, phase, timer_state,
                    end_state, remaining, now, action, pc, result, entered,
                    quitAct, inputFailed, ts0, bells, delays, completions,
                    skips, phaseCompl, newPhase, pausedSkip, iter,
                    exitBy, cli >>

Next ==
    \/ LoopExit
    \/ FlagExit
    \/ TickStart
    \/ HandleInput
    \/ ApplyAction
    \/ Update
    \/ DrawOk
    \/ DrawErr
    \/ SignalHandler

Spec == Init /\ [][Next]_vars

\* ------------------------------------------- the loop with a running clock
\* An Instant has no observable origin: the code only subtracts instants and
\* adds durations to them.  For runs of unbounded length the origin is moved
\* to the previous tick's `now` whenever a tick starts, so that instants stay
\* small while the clock can advance for ever.
ShiftOrigin(ts, base) ==
    IF ts.tag = "Running" THEN Running(ts.end - base) ELSE ts

\* A tick start that leaves the cached remaining as it was.
LiveTickStart_NoRefresh ==
    /\ pc = "loop"
    /\ end_state # "Quit"
    /\ running
    /\ \E d \in 0..MaxStep :
          /\ now' = d
          /\ timer_state' = ShiftOrigin(timer_state, now)
          /\ remaining' = remaining
    /\ pc' = "input"
    /\ iter' = << "while", "flag", "refresh" >>
    /\ UNCHANGED << current_cycle, config_vars, phase, end_state, running,
                    action, result, hist_vars, exitBy, aux_vars >>

\* TickStart with the origin moved: the clock has advanced by d since the
\* previous tick's `now`, and remaining is refreshed for the new `now`.
LiveTickStart ==
    /\ pc = "loop"
    /\ end_state # "Quit"
    /\ running
    /\ \E d \in 0..MaxStep :
          /\ now' = d
          /\ timer_state' = ShiftOrigin(timer_state, now)
          /\ remaining' = Remaining(ShiftOrigin(timer_state, now), d)
    /\ pc' = "input"
    /\ iter' = << "while", "flag", "refresh" >>
    /\ UNCHANGED << current_cycle, config_vars, phase, end_state, running,
                    action, result, hist_vars, exitBy, aux_vars >>

\* A tick start at which the clock has advanced while the timer runs.
RunningClockTick ==
    /\ timer_state.tag = "Running"
    /\ LiveTickStart
    /\ now' > 0

\* The steps of the loop thread.
LoopThread ==
    \/ LoopExit
    \/ FlagExit
    \/ LiveTickStart
    \/ HandleInput
    \/ ApplyAction
    \/ Update
    \/ DrawOk
    \/ DrawErr

LiveNext ==
    \/ LoopThread
    \/ SignalHandler

\* The loop thread always takes its next step (the poll is bounded by 100 ms,
\* the sleep by 300 ms), and a timer that runs again and again sees the clock
\* advance again and again.
SpecLive ==
    /\ Init
    /\ [][LiveNext]_vars
    /\ WF_vars(LoopThread)
    /\ SF_vars(RunningClockTick)

\* ----------------------------------------- TimerState taken on its own
\* Every TimerState and every instant within the bounds; toggle_pause and
\* remaining are applied to them as a caller may: a query, then up to two
\* toggles at the same instant, then the clock moves on.
TimerStates ==
    { Running(e) : e \in 0..MaxTime } \cup { Paused(r) : r \in 0..MaxDur }

TimerInit ==
    /\ timer_state \in TimerStates
    /\ now \in 0..MaxTime
    /\ remaining = 0
    /\ current_cycle = 1
    /\ num_cycles = 1
    /\ work_time = 1
    /\ break_time = 1
    /\ late = FALSE
    /\ phase = Phase("Work", 1)
    /\ end_state = "None"
    /\ running = TRUE
    /\ action = "None"
    /\ pc = "t_idle"
    /\ result = "none"
    /\ entered = << [kind |-> "Work", cycle |-> 1] >>
    /\ quitAct = FALSE
    /\ inputFailed = FALSE
    /\ sigCleared = FALSE
    /\ ts0 = timer_state
    /\ bells = 0
    /\ delays = 0
    /\ completions = 0
    /\ skips = 0
    /\ phaseCompl = 0
    /\ newPhase = FALSE
    /\ pausedSkip = FALSE
    /\ iter = << >>
    /\ exitBy = "none"
    /\ sigAt = "none"
    /\ cli = "none"

timer_frame ==
    << current_cycle, config_vars, phase, end_state, running, action,
       result, entered, quitAct, inputFailed, sigCleared, iter, exitBy,
       aux_vars >>

\* let r = timer_state.remaining(now)
TimerQuery ==
    /\ pc = "t_idle"
    /\ remaining' = Remaining(timer_state, now)
    /\ ts0' = timer_state
    /\ pc' = "t_queried"
    /\ UNCHANGED << timer_state, now, timer_frame >>

\* timer_state.toggle_pause(now)
TimerToggle ==
    /\ pc \in {"t_queried", "t_toggled1"}
    /\ timer_state' = TogglePause(timer_state, now)
    /\ pc' = IF pc = "t_queried" THEN "t_toggled1" ELSE "t_toggled2"
    /\ UNCHANGED << remaining, ts0, now, timer_frame >>

\* the clock moves on
TimerAdvance ==
    /\ pc \in {"t_queried", "t_toggled1", "t_toggled2"}
    /\ \E t \in (now + 1)..(now + MaxStep) :
          /\ t <= MaxTime
          /\ now' = t
    /\ pc' = "t_idle"
    /\ UNCHANGED << timer_state, remaining, ts0, timer_frame >>

TimerNext ==
    \/ TimerQuery
    \/ TimerToggle
    \/ TimerAdvance

SpecTimer == TimerInit /\ [][TimerNext]_vars

\* ------------------------------------------------------------------ main
\* What `--work` / `--break` parse to: Ok(a humantime duration, here in
\* milliseconds) or Err.
CliDurations ==
    { [ok |-> FALSE, ms |-> 0] }
        \cup { [ok |-> TRUE, ms |-> 500 * k] : k \in 0..(2 * MaxDur) }

\* What clap accepts for `--cycles` (u32) and `--late`.
CliArgs ==
    [ work_time : CliDurations, break_time : CliDurations,
      num_cycles : 0..MaxCycles, late : BOOLEAN ]

\* humantime::Duration::as_secs: whole seconds, the rest is dropped.
AsSecs(ms) == ms \div 1000

\* main before Cli::parse() has returned; the controller does not exist yet.
MainInit ==
    /\ cli \in CliArgs
    /\ pc = "main"
    /\ current_cycle = 0
    /\ num_cycles = 0
    /\ work_time = 0
    /\ break_time = 0
    /\ phase = Phase("none", 0)
    /\ now = 0
    /\ timer_state = Paused(0)
    /\ end_state = "None"
    /\ late = FALSE
    /\ remaining = 0
    /\ running = TRUE
    /\ action = "None"
    /\ result = "none"
    /\ entered = << >>
    /\ quitAct = FALSE
    /\ inputFailed = FALSE
    /\ sigCleared = FALSE
    /\ ts0 = Paused(0)
    /\ bells = 0
    /\ delays = 0
    /\ completions = 0
    /\ skips = 0
    /\ phaseCompl = 0
    /\ newPhase = FALSE
    /\ pausedSkip = FALSE
    /\ iter = << >>
    /\ exitBy = "none"
    /\ sigAt = "none"

main_frame ==
    << running, action, result, quitAct, inputFailed, sigCleared, ts0,
       bells, delays, completions, skips, phaseCompl, newPhase, pausedSkip,
       iter,
       exitBy, sigAt, cli >>

\* A duration argument does not parse: process::exit(1).
MainExit ==
    /\ pc = "main"
    /\ ~cli.work_time.ok \/ ~cli.break_time.ok
    /\ pc' = "exited"
    /\ UNCHANGED << current_cycle, config_vars, phase, timer_state,
                    end_state, remaining, now, entered, main_frame >>

\* Both durations parse: Config is built from their whole seconds and the
\* controller is constructed from it.
MainConstruct ==
    /\ pc = "main"
    /\ cli.work_time.ok
    /\ cli.break_time.ok
    /\ LET config == [ work_time  |-> AsSecs(cli.work_time.ms),
                       break_time |-> AsSecs(cli.break_time.ms),
                       cycles     |-> cli.num_cycles,
                       late       |-> cli.late ]
           app == NewApp(config, now)
       IN /\ current_cycle' = app.current_cycle
          /\ num_cycles' = app.num_cycles
          /\ work_time' = app.work_time
          /\ break_time' = app.break_time
          /\ phase' = app.phase
          /\ timer_state' = app.timer_state
          /\ end_state' = app.end_state
          /\ late' = app.late
          /\ remaining' = app.remaining
    /\ now' = now
    /\ entered' = << [kind |-> "Work", cycle |-> 1] >>
    /\ pc' = "loop"
    /\ UNCHANGED main_frame

MainNext ==
    \/ MainExit
    \/ MainConstruct

SpecMain == MainInit /\ [][MainNext]_vars

\* ------------------------------------------------- helpers of the claims
Max0(i) == IF i > 0 THEN i ELSE 0

IsPrefix(s, t) ==
    /\ Len(s) <= Len(t)
    /\ \A i \in 1..Len(s) : s[i] = t[i]

\* Work(1), Break(1), ..., Work(n), and Break(n) iff l.
ExpectedPhases(n, l) ==
    [ i \in 1..(IF l THEN 2 * n ELSE 2 * n - 1) |->
        IF i % 2 = 1
        THEN [kind |-> "Work", cycle |-> (i + 1) \div 2]
        ELSE [kind |-> "Break", cycle |-> i \div 2] ]

\* No Quit action, no input failure, no clearing of the flag by the handler.
Undisturbed == ~quitAct /\ ~inputFailed /\ ~sigCleared

\* C1: with late = false in an undisturbed run, the phases entered are
\* Work(1), Break(1), ..., in that order and never beyond Work(N); no Break
\* phase is entered at current_cycle = N; and end_state is Quit only once
\* all N Work and N-1 Break phases were entered, set by the update of the
\* tick that ends Work(N).
C1_WorkBreakSequence ==
    (~late /\ Undisturbed) =>
        /\ IsPrefix(entered, ExpectedPhases(num_cycles, FALSE))
        /\ entered[Len(entered)] = [kind |-> phase.kind, cycle |-> current_cycle]
        /\ ~(phase.kind = "Break" /\ current_cycle = num_cycles)
        /\ end_state = "Quit" =>
              /\ entered = ExpectedPhases(num_cycles, FALSE)
              /\ phase.kind = "Work"
              /\ current_cycle = num_cycles
              /\ pc \in {"draw", "loop", "done"}

C1_Witness ==
    /\ ~late /\ Undisturbed
    /\ num_cycles = 2
    /\ pc = "done" /\ result = "Ok" /\ end_state = "Quit"
    /\ entered = ExpectedPhases(2, FALSE)

\* C2: with late = true in an undisturbed run, the phases entered are
\* Work(1), Break(1), ..., Work(N), Break(N) in that order, and end_state is
\* Quit only once all 2N phases were entered, set by the update of the tick
\* that ends Break(N).
C2_LateSequence ==
    (late /\ Undisturbed) =>
        /\ IsPrefix(entered, ExpectedPhases(num_cycles, TRUE))
        /\ entered[Len(entered)] = [kind |-> phase.kind, cycle |-> current_cycle]
        /\ end_state = "Quit" =>
              /\ entered = ExpectedPhases(num_cycles, TRUE)
              /\ Len(entered) = 2 * num_cycles
              /\ phase.kind = "Break"
              /\ current_cycle = num_cycles
              /\ pc \in {"draw", "loop", "done"}

C2_Witness ==
    /\ late /\ Undisturbed
    /\ num_cycles = 2
    /\ pc = "done" /\ result = "Ok" /\ end_state = "Quit"
    /\ Len(entered) = 4

\* C3: the update of a tick in which Skip was applied to a Work phase with
\* current_cycle < num_cycles installs Break with break_time, a Running timer
\* ending at now + break_time, end_state None and the same current_cycle;
\* the draw that ends the tick changes none of them.
C3_SkipWork ==
    [][ /\ ( /\ pc = "update" /\ pc' = "draw"
             /\ action = "Skip"
             /\ phase.kind = "Work"
             /\ current_cycle < num_cycles )
           => /\ phase' = Phase("Break", break_time)
              /\ timer_state' = Running(now + break_time)
              /\ end_state' = "None"
              /\ current_cycle' = current_cycle
              /\ now' = now
        /\ pc = "draw"
           => UNCHANGED << phase, timer_state, end_state, current_cycle, now >>
      ]_vars

C3_Witness ==
    /\ pc = "draw"
    /\ action = "Skip"
    /\ phase.kind = "Break"
    /\ end_state = "None"
    /\ current_cycle < num_cycles
    /\ remaining > 0
    /\ timer_state = Running(now + break_time)

\* C4: once a Quit action has been applied the running flag is false and
\* stays false, and the loop thread only finishes the tick (update, draw)
\* and exits: it never polls input or applies an action again.
C4_QuitStopsLoop ==
    quitAct =>
        /\ ~running
        /\ pc \in {"update", "draw", "loop", "done"}

C4_Witness ==
    /\ quitAct
    /\ ~sigCleared /\ ~inputFailed
    /\ pc = "done"
    /\ ~running

\* C5: once end_state is Quit no step sets it to another value, changes the
\* phase or increments current_cycle.
C5_QuitAbsorbing ==
    [][ end_state = "Quit"
        => /\ end_state' = "Quit"
           /\ phase' = phase
           /\ current_cycle' = current_cycle ]_vars

\* C6: pausing captures max(0, end - now) and the cached remaining is that
\* value; while the timer stays Paused neither it nor the cached remaining
\* changes, however far the clock advances; resuming by Toggle at now gives
\* Running{end: now + r}, whose remaining at now is r.
C6_PauseFreezes ==
    [][ /\ (timer_state.tag = "Running" /\ timer_state'.tag = "Paused")
           => /\ timer_state'.remaining = Max0(timer_state.end - now)
              /\ remaining' = timer_state'.remaining
              /\ now' = now
        /\ (timer_state.tag = "Paused" /\ timer_state'.tag = "Paused")
           => /\ timer_state' = timer_state
              /\ remaining = timer_state.remaining
              /\ remaining' = remaining
        /\ (timer_state.tag = "Paused" /\ timer_state'.tag = "Running"
               /\ pc = "apply")
           => /\ action = "Toggle"
              /\ timer_state'.end = now + timer_state.remaining
              /\ Max0(timer_state'.end - now') = timer_state.remaining
              /\ remaining' = timer_state.remaining
      ]_vars

\* A resume in the first Work phase after a pause during which time passed.
C6_Witness ==
    /\ pc = "update"
    /\ action = "Toggle"
    /\ Len(entered) = 1
    /\ timer_state.tag = "Running"
    /\ remaining > 0
    /\ timer_state.end = now + remaining
    /\ timer_state.end > work_time

\* What remaining(t) is to be, written with integer subtraction.
ExpectedRemaining(ts, t) ==
    IF ts.tag = "Running" THEN Max0(ts.end - t) ELSE ts.remaining

\* C7: for every TimerState and instant, remaining(now) leaves the
\* TimerState as it was and returns max(0, end - now) for Running{end} and
\* the stored remaining for Paused; the result is never negative.
C7_RemainingSaturates ==
    pc = "t_queried" =>
        /\ timer_state = ts0
        /\ remaining = ExpectedRemaining(ts0, now)
        /\ remaining >= 0

\* remaining queried on a Running timer whose end has passed.
C7_Witness ==
    /\ pc = "t_queried"
    /\ timer_state.tag = "Running"
    /\ now > timer_state.end
    /\ remaining = 0

\* C8: after two toggle_pause calls at the same instant now, remaining(now)
\* is what it was before them and the variant is the same; from Paused{r}
\* the result is Paused{r} again.
C8_DoubleToggle ==
    pc = "t_toggled2" =>
        /\ ExpectedRemaining(timer_state, now) = ExpectedRemaining(ts0, now)
        /\ ExpectedRemaining(timer_state, now) = remaining
        /\ timer_state.tag = ts0.tag
        /\ ts0.tag = "Paused" => timer_state = ts0

\* Two toggles of a Running timer whose end has passed.
C8_Witness ==
    /\ pc = "t_toggled2"
    /\ ts0.tag = "Running"
    /\ now > ts0.end
    /\ timer_state = Running(now)
    /\ remaining = 0

\* C9: after an input failure end_state is Erred, and it is still Erred
\* when run has returned.
C9_ErredKept ==
    /\ (inputFailed /\ pc = "apply") => end_state = "Erred"
    /\ (inputFailed /\ pc = "done") => end_state = "Erred"

\* C10: after handle_input observed a poll / read error it is not called
\* again: the loop thread applies the resulting action, finishes the tick
\* and exits, and from the application on the running flag is false.
C10_InputFailureFatal ==
    inputFailed =>
        /\ pc \in {"apply", "update", "draw", "loop", "done"}
        /\ pc # "apply" => ~running

C10_Witness ==
    /\ inputFailed
    /\ ~sigCleared
    /\ pc = "done"
    /\ ~running

\* C11 as stated: after the handler's store the loop leaves at the
\* running-flag check with end_state = Quit.
C11_ExitAtFlagCheck ==
    (sigCleared /\ pc = "done") =>
        /\ exitBy = "flag"
        /\ end_state = "Quit"

\* C11 as amended: once the handler has stored false the flag stays false,
\* the loop head never starts another tick, and run leaves the loop either
\* at the flag check or at the while condition (the tick in progress left
\* end_state = Quit), both with end_state = Quit, or with the error of the
\* draw of the tick in progress.
C11_SignalStopsLoop ==
    [][ sigCleared =>
          /\ ~running /\ ~running'
          /\ pc = "loop" => pc' \in {"loop", "done"}
          /\ (pc # "done" /\ pc' = "done") =>
                \/ exitBy' = "flag" /\ end_state' = "Quit" /\ result' = "Ok"
                \/ /\ exitBy' = "while" /\ end_state' = "Quit"
                   /\ end_state = "Quit" /\ result' = "Ok"
                \/ exitBy' = "draw" /\ result' = "Err"
      ]_vars

\* The store happened during update; the tick was finished and the flag
\* check ended the run.
C11_Witness ==
    /\ sigAt = "update"
    /\ ~quitAct /\ ~inputFailed
    /\ pc = "done"
    /\ exitBy = "flag"
    /\ end_state = "Quit"
    /\ iter = << "while", "flag" >>

\* C12: an update that matches Completed sleeps once and rings the bell
\* once, an update that matches Skipped sleeps once and rings no bell, any
\* other update does neither; so the bells counted equal the Completed
\* endings and the sleeps equal the Completed plus the Skipped endings.
C12_BellOnlyOnCompleted ==
    /\ [](bells = completions /\ delays = completions + skips)
    /\ [][ (pc = "update" /\ pc' = "draw") =>
             /\ completions' = completions + 1
                   => (bells' = bells + 1 /\ delays' = delays + 1)
             /\ skips' = skips + 1
                   => (bells' = bells /\ delays' = delays + 1)
             /\ (completions' = completions /\ skips' = skips)
                   => (bells' = bells /\ delays' = delays) ]_vars

\* A run with both a Completed and a Skipped ending.
C12_Witness ==
    /\ completions >= 1
    /\ skips >= 1
    /\ bells = completions
    /\ delays = completions + skips
    /\ pc = "draw"
    /\ action = "Skip"
    /\ remaining > 0

\* C13: current_cycle stays within 1..num_cycles; it changes only by +1 and
\* only in an update that replaces a Break phase by a Work phase; the Work
\* and Break phases of one cycle carry the same number.
C13_CycleCounter ==
    /\ [](1 <= current_cycle /\ current_cycle <= num_cycles)
    /\ [][ /\ current_cycle' # current_cycle =>
                /\ current_cycle' = current_cycle + 1
                /\ pc = "update"
                /\ phase.kind = "Break" /\ phase'.kind = "Work"
                /\ end_state' = "None"
           /\ (phase.kind = "Work" /\ phase'.kind = "Break") =>
                current_cycle' = current_cycle
           /\ (end_state # "Quit" /\ end_state' = "Quit") =>
                current_cycle' = current_cycle ]_vars

\* The Break phase of the last cycle of a run with a late break.
C13_Witness ==
    /\ late
    /\ num_cycles = 2
    /\ current_cycle = num_cycles
    /\ phase.kind = "Break"
    /\ end_state = "None"

\* C14: when update has run (the state handed to draw, and the state the
\* next loop head sees) end_state is None or Quit.
C14_EndStateAtTickEnd ==
    pc \in {"draw", "loop"} => end_state \in {"None", "Quit"}

\* The tick of an input failure: Erred was set and is gone at draw.
C14_Witness ==
    /\ pc = "draw"
    /\ inputFailed
    /\ end_state = "Quit"

\* C15: an update matches Completed (and rings the bell) exactly when the
\* timer is Running and the cached remaining is zero: never for a Paused
\* timer, whatever its frozen remaining, and also when a Skip or Quit action
\* was applied in that tick, which is then not matched as Skipped.
C15_CompletedIff ==
    [][ (pc = "update" /\ pc' = "draw") =>
          /\ (completions' = completions + 1)
                <=> (timer_state.tag = "Running" /\ remaining = 0)
          /\ (bells' = bells + 1)
                <=> (timer_state.tag = "Running" /\ remaining = 0)
          /\ completions' \in {completions, completions + 1}
          /\ timer_state.tag = "Paused" => completions' = completions
          /\ (timer_state.tag = "Running" /\ remaining = 0)
                => (skips' = skips /\ end_state' \in {"None", "Quit"})
      ]_vars

\* A Skip applied in the tick in which the Running timer reached zero: the
\* ending was matched as Completed, not as Skipped.
C15_Witness ==
    /\ pc = "draw"
    /\ action = "Skip"
    /\ remaining = 0
    /\ completions = 1
    /\ skips = 0
    /\ bells = 1

\* C16: no phase instance is matched as Completed in more than one tick, and
\* the tick after an update that installed a phase computes its remaining
\* from the timer of the new phase, Running{end: now + duration}.
C16_CompletedOncePerPhase ==
    /\ [](phaseCompl <= 1)
    /\ [][ (pc = "loop" /\ pc' = "input" /\ newPhase) =>
             /\ timer_state = Running(now + phase.duration)
             /\ phase.duration > 0
             /\ remaining' = Max0(now + phase.duration - now') ]_vars

\* The first tick of a Break phase entered by a Completed Work phase, with
\* time left although the tick before saw remaining zero.
C16_Witness ==
    /\ pc = "input"
    /\ newPhase
    /\ phase.kind = "Break"
    /\ completions = 1
    /\ skips = 0
    /\ remaining > 0

\* C17: the iteration whose flag check finds the flag false sets end_state
\* to Quit and changes nothing else of the controller: no refresh, no poll,
\* no action, no bell or sleep, no draw.
C17_FlagExitFrame ==
    [][ (pc = "loop" /\ pc' = "done" /\ exitBy' = "flag") =>
          /\ ~running
          /\ end_state' = "Quit"
          /\ iter' = << "while", "flag" >>
          /\ UNCHANGED << phase, current_cycle, timer_state, remaining, now,
                          action, running, bells, delays, config_vars >>
      ]_vars

\* The flag was cleared between two ticks of a paused Break phase.
C17_Witness ==
    /\ pc = "done"
    /\ exitBy = "flag"
    /\ sigAt = "loop"
    /\ phase.kind = "Break"
    /\ timer_state.tag = "Paused"
    /\ end_state = "Quit"

\* The steps of one complete iteration, in order.
FullIteration ==
    << "while", "flag", "refresh", "poll", "apply", "update", "draw" >>

\* C18: the steps of an iteration are taken in the order flag check,
\* refresh, poll, apply, update, draw; every update is followed by one draw;
\* after the draw of an iteration that left end_state = Quit the loop head
\* exits without a further iteration body.
C18_IterationOrder ==
    /\ [](IsPrefix(iter, FullIteration))
    /\ [](pc = "loop" => iter \in {<< >>, FullIteration})
    /\ [](pc = "draw" => iter = SubSeq(FullIteration, 1, 6))
    /\ [](pc = "done" =>
            \/ iter = << "while" >> /\ exitBy = "while"
            \/ iter = << "while", "flag" >> /\ exitBy = "flag"
            \/ iter = FullIteration /\ exitBy = "draw")
    /\ [][ /\ (pc = "update" /\ pc' # pc) => pc' = "draw"
           /\ (pc = "draw" /\ pc' # pc) => iter' = FullIteration
           /\ (pc = "loop" /\ end_state = "Quit" /\ pc' # pc) =>
                 (pc' = "done" /\ iter' = << "while" >>) ]_vars

\* The final phase has ended, its frame was drawn, the loop head is next.
C18_Witness ==
    /\ Undisturbed
    /\ pc = "loop"
    /\ end_state = "Quit"
    /\ iter = FullIteration

\* C19: in the state handed to draw the cached remaining is what
\* timer_state.remaining(now) gives for the tick's now and the current
\* timer_state.
C19_SnapshotRemaining ==
    pc = "draw" => remaining = ExpectedRemaining(timer_state, now)

\* C20: whenever main has constructed the controller, work_time and
\* break_time are positive and num_cycles is at least 1.
C20_ConfigValidated ==
    pc = "loop" =>
        /\ work_time > 0
        /\ break_time > 0
        /\ num_cycles >= 1

\* C21: an update that installs a new phase is one that matched Completed
\* or Skipped and reset end_state to None, and it leaves a Running timer
\* ending at now + the new phase's configured duration, whatever the timer
\* was before, Paused included; the draw of that tick does not change it.
C21_TransitionInstallsRunning ==
    /\ [][ (pc = "update" /\ pc' = "draw") =>
             /\ phase' # phase =>
                   /\ completions' + skips' = completions + skips + 1
                   /\ end_state' = "None"
                   /\ phase'.duration = IF phase'.kind = "Break"
                                        THEN break_time ELSE work_time
                   /\ timer_state' = Running(now + phase'.duration)
                   /\ now' = now
             /\ ( /\ completions' + skips' = completions + skips + 1
                  /\ end_state' = "None" ) => phase' # phase
             /\ phase' = phase => timer_state' = timer_state ]_vars
    /\ []((pc \in {"draw", "loop"} /\ newPhase) =>
             /\ timer_state = Running(now + phase.duration)
             /\ end_state = "None")

\* Skip applied while the timer was Paused: the new phase runs.
C21_Witness ==
    /\ pc = "draw"
    /\ action = "Skip"
    /\ pausedSkip
    /\ newPhase
    /\ end_state = "None"
    /\ timer_state = Running(now + phase.duration)

\* C22 as stated, its second half: run does not return while the timer is
\* Paused unless a Skip, a Quit action, an input failure or a store by the
\* signal handler brought that about.
C22_PausedExitCauses ==
    (pc = "done" /\ timer_state.tag = "Paused") =>
        \/ action = "Skip"
        \/ quitAct
        \/ inputFailed
        \/ sigCleared

\* C22: if no draw fails and the timer is never left Paused for ever, the
\* loop eventually exits with end_state = Quit, whatever the input is (none
\* included); and run does not return while the timer is Paused unless a
\* Skip in the last tick, a Quit action, an input failure, a store by the
\* signal handler or a failed draw brought that about.
C22_Termination ==
    /\ ( /\ [](result # "Err")
         /\ []<>(timer_state.tag = "Running" \/ pc = "done") )
          => <>(pc = "done" /\ end_state = "Quit")
    /\ []( (pc = "done" /\ timer_state.tag = "Paused") =>
              \/ action = "Skip"
              \/ quitAct
              \/ inputFailed
              \/ sigCleared
              \/ result = "Err" )

\* A run that ended by itself: every phase was matched as Completed.
C22_Witness ==
    /\ Undisturbed
    /\ num_cycles = 2
    /\ late
    /\ pc = "done"
    /\ result = "Ok"
    /\ end_state = "Quit"
    /\ skips = 0
    /\ completions = 4
====
